---- MODULE Spec2Model ----
(***************************************************************************)
(* A model of ripix: the conversion of a raster image, or of an ASCII      *)
(* grid, into a sequence of rich Segments, by the synchronous facade       *)
(* Pixels and by the asynchronous facade AsyncPixels (src/ripix/pixel.py,  *)
(* src/ripix/functions.py).                                                *)
(*                                                                         *)
(* Every call of a factory is a task.  A call of the Pixels facade holds   *)
(* the thread until it returns.  A call of the AsyncPixels facade is a     *)
(* task of an asyncio event loop: it gives the loop back only where it     *)
(* awaits a future of the executor (functions.run_in_executor).            *)
(***************************************************************************)
EXTENDS Integers, Sequences, FiniteSets, TLC

(***************************************************************************)
(* Bounds of the model.                                                    *)
(***************************************************************************)
MaxW == 2
MaxH == 2
MaxGrid == 2
MaxStripW == 2
MaxConcW == 1
MaxConcGrid == 2

(***************************************************************************)
(* Python values.  Every value that the code compares carries its type:    *)
(* rich's Style.__eq__ answers NotImplemented for an operand that is no    *)
(* Style, str.__eq__ does the same for an operand that is no str, and      *)
(* Python then compares identities, so values of two types are unequal.    *)
(***************************************************************************)
NoneValue == [type |-> "NoneType", bgcolor |-> <<>>]
NullStyle == [type |-> "Style", bgcolor |-> <<>>]
EmptyStr == [type |-> "str", val |-> ""]

BgStyle(triplet) == [type |-> "Style", bgcolor |-> triplet]

PyEq(a, b) == IF a.type # b.type THEN FALSE ELSE a = b

Segment(text, style) == [text |-> text, style |-> style]

(***************************************************************************)
(* f"on rgb({r},{g},{b})": a str is the sequence of its characters, and    *)
(* an int is formatted in decimal, most significant digit first.           *)
(***************************************************************************)
DigitChars == <<"0", "1", "2", "3", "4", "5", "6", "7", "8", "9">>

RECURSIVE IntToStr(_)
IntToStr(n) ==
    IF n < 10 THEN <<DigitChars[n + 1]>>
    ELSE IntToStr(n \div 10) \o <<DigitChars[(n % 10) + 1]>>

Descriptor(r, g, b) ==
    <<"o", "n", " ", "r", "g", "b", "(">> \o IntToStr(r) \o <<",">>
        \o IntToStr(g) \o <<",">> \o IntToStr(b) \o <<")">>

(***************************************************************************)
(* Style.parse of a descriptor: the words of the definition are split at   *)
(* blanks; the word after "on" is the background colour, which Color.parse *)
(* reads as rgb(<int>,<int>,<int>) with every component at most 255.       *)
(* Anything else is a syntax error.                                        *)
(***************************************************************************)
StyleSyntaxError == [type |-> "StyleSyntaxError", bgcolor |-> <<>>]

RECURSIVE Split(_, _)
Split(s, sep) ==
    IF \A i \in 1..Len(s) : s[i] # sep THEN <<s>>
    ELSE LET k == CHOOSE i \in 1..Len(s) :
                      s[i] = sep /\ \A j \in 1..(i - 1) : s[j] # sep
         IN  <<SubSeq(s, 1, k - 1)>> \o Split(SubSeq(s, k + 1, Len(s)), sep)

IsDigits(s) ==
    Len(s) > 0 /\ \A i \in 1..Len(s) : \E d \in 1..10 : DigitChars[d] = s[i]

RECURSIVE StrToInt(_)
StrToInt(s) ==
    IF Len(s) = 0 THEN 0
    ELSE 10 * StrToInt(SubSeq(s, 1, Len(s) - 1))
            + (CHOOSE d \in 0..9 : DigitChars[d + 1] = s[Len(s)])

ColorParse(word) ==
    IF Len(word) < 5
          \/ SubSeq(word, 1, 4) # <<"r", "g", "b", "(">>
          \/ word[Len(word)] # ")"
    THEN <<>>
    ELSE LET comps == Split(SubSeq(word, 5, Len(word) - 1), ",")
         IN  IF /\ Len(comps) = 3
                /\ \A i \in 1..3 : IsDigits(comps[i])
                /\ \A j \in 1..3 : StrToInt(comps[j]) <= 255
             THEN [i \in 1..3 |-> StrToInt(comps[i])]
             ELSE <<>>

StyleParse(definition) ==
    LET words == Split(definition, " ")
    IN  IF Len(words) = 2 /\ words[1] = <<"o", "n">> /\ ColorParse(words[2]) # <<>>
        THEN BgStyle(ColorParse(words[2]))
        ELSE StyleSyntaxError

\* A changed PixelStyle: only a pixel of full alpha gets the background style.
PixelStyleOpaqueOnly(rgba) ==
    IF rgba[4] >= 255 THEN StyleParse(Descriptor(rgba[1], rgba[2], rgba[3]))
    ELSE NullStyle

(***************************************************************************)
(* The style of one pixel (pixel.py, lines 68 and 180): any positive       *)
(* alpha gives the background style of the descriptor, alpha 0 the null    *)
(* style.                                                                  *)
(***************************************************************************)
PixelStyle(rgba) ==
    IF rgba[4] > 0 THEN StyleParse(Descriptor(rgba[1], rgba[2], rgba[3]))
    ELSE NullStyle

(***************************************************************************)
(* PIL images: a mode, a size and the pixels, row by row.                  *)
(***************************************************************************)
ImagesOf(mode, palette, W, H) ==
    UNION { { [mode |-> mode, width |-> w, height |-> h, px |-> p] :
                p \in [1..h -> [1..w -> palette]] } :
            w \in 0..W, h \in 0..H }

GetPixelAt(image, x, y) == image.px[y + 1][x + 1]

\* Image.convert("RGBA"): a mode without alpha gets alpha 255.
ConvertRGBA(image) ==
    IF image.mode = "RGBA" THEN image
    ELSE [image EXCEPT
            !.mode = "RGBA",
            !.px = [yy \in 1..image.height |->
                      [xx \in 1..image.width |-> Append(image.px[yy][xx], 255)]]]

\* Image.resize(size, resample=Resampling.NEAREST): the pixel of the source
\* under the centre of each pixel of the result.
ResizeNearest(image, size) ==
    [mode |-> image.mode, width |-> size[1], height |-> size[2],
     px |-> [yy \in 1..size[2] |->
               [xx \in 1..size[1] |->
                  image.px[(((2 * yy - 1) * image.height) \div (2 * size[2])) + 1]
                          [(((2 * xx - 1) * image.width) \div (2 * size[1])) + 1]]]]

ResizeSizeValid(size) == size[1] > 0 /\ size[2] > 0

\* The resize argument: None, or a tuple (width, height).
NoResize == [isNone |-> TRUE, size |-> <<>>]
ResizeTo(w, h) == [isNone |-> FALSE, size |-> <<w, h>>]

\* "if resize:" of Pixels: None and the empty tuple are false.
Truthy(resize) == ~resize.isNone /\ Len(resize.size) > 0
\* "if resize is not None:" of AsyncPixels.
IsNotNone(resize) == ~resize.isNone

\* The mapping argument of from_ascii: None stands for the empty map.
NoMapping == [isNone |-> TRUE, map |-> <<>>]
MappingOf(m) == [isNone |-> FALSE, map |-> m]
NormMapping(mapping) == IF mapping.isNone THEN <<>> ELSE mapping.map
\* A changed MappingGet: the map is not looked at.
MappingGetDefaultOnly(map, key, default) == default
MappingGet(map, key, default) == IF key \in DOMAIN map THEN map[key] ELSE default

(***************************************************************************)
(* The inputs of the model.                                                *)
(***************************************************************************)
RGBAPalette == { <<7, 128, 0, 0>>, <<255, 0, 0, 255>> }
RGBPalette == { <<0, 128, 7>> }
StripPalette ==
    { <<0, 0, 0, 0>>, <<255, 7, 128, 0>>, <<255, 7, 128, 255>>,
      <<255, 7, 128, 1>>, <<0, 0, 0, 255>> }

Images ==
    ImagesOf("RGBA", RGBAPalette, MaxW, MaxH) \cup ImagesOf("RGB", RGBPalette, MaxW, MaxH)

\* One row of pixels of the wide palette.
StripImages ==
    { i \in ImagesOf("RGBA", StripPalette, MaxStripW, 1) : i.height = 1 /\ i.width > 0 }

\* A resize is asked only of an image that has pixels; (0, 1) is no valid size.
ResizeArgs(image) ==
    {NoResize} \cup
        (IF image.width > 0 /\ image.height > 0
         THEN {ResizeTo(1, 2), ResizeTo(0, 1)} ELSE {})

Alphabet == {"x", " ", "\n"}
Grids(n) == UNION { [1..k -> Alphabet] : k \in 0..n }

Yellow == Segment(" ", BgStyle(<<255, 255, 0>>))
Blue == Segment("O", BgStyle(<<0, 0, 255>>))
Mappings ==
    { NoMapping, MappingOf(<<>>), MappingOf([c \in {"x"} |-> Yellow]),
      MappingOf([c \in {"x", "\n"} |-> IF c = "x" THEN Yellow ELSE Blue]) }

SegmentLists == { <<>>, <<Yellow>>, <<Segment("a", NoneValue), Blue>> }

BlankImage == [mode |-> "RGBA", width |-> 0, height |-> 0, px |-> <<>>]

ImageCall(facade, op, image, resize) ==
    [facade |-> facade, op |-> op, image |-> image, resize |-> resize,
     grid |-> <<>>, mapping |-> NoMapping, segs |-> <<>>]
AsciiCall(facade, grid, mapping) ==
    [facade |-> facade, op |-> "from_ascii", image |-> BlankImage, resize |-> NoResize,
     grid |-> grid, mapping |-> mapping, segs |-> <<>>]
SegmentsCall(facade, segs) ==
    [facade |-> facade, op |-> "from_segments", image |-> BlankImage,
     resize |-> NoResize, grid |-> <<>>, mapping |-> NoMapping, segs |-> segs]

ImageOps == {"from_image", "from_image_path"}

ImageCalls(facade, images) ==
    UNION { { ImageCall(facade, op, i, r) : op \in ImageOps, r \in ResizeArgs(i) } :
            i \in images }

Calls(facade) ==
    ImageCalls(facade, Images)
        \cup { AsciiCall(facade, g, m) : g \in Grids(MaxGrid), m \in Mappings }
        \cup { SegmentsCall(facade, s) : s \in SegmentLists }

(***************************************************************************)
(* The state.  input[t] is the call of task t.  pc[t] is the place of the  *)
(* task in the code.  tstate[t] is "running" (the task holds the thread),  *)
(* "waiting" (it awaits a future of the executor), "ready" (the loop may    *)
(* run it) or "done"; have[t] says that the awaited future is complete.    *)
(* image, y, x, pixel, this_row and segments are the locals of the call    *)
(* (x is also the place in the grid of from_ascii); pixels[t] is the       *)
(* Pixels or AsyncPixels object the call has built, result[t] what its     *)
(* caller has received.                                                    *)
(***************************************************************************)
VARIABLES input, pc, tstate, have, image, y, x, pixel, this_row, segments,
          pixels, result

vars == <<input, pc, tstate, have, image, y, x, pixel, this_row, segments,
          pixels, result>>

Tasks == DOMAIN pc

IsAsync(t) == input[t].facade = "AsyncPixels"

\* A changed Frame: one list for every call (a list made once, as a default
\* argument is).
SharedFrame(t) == 1

\* The frame that holds the lists of a call: "segments = []" and
\* "this_row = []" make new lists in every call.
Frame(t) == t

NoObject == [cls |-> "None", segments |-> <<>>]
NewObject(cls, segs) == [cls |-> cls, segments |-> segs]

Pending == [kind |-> "pending", cls |-> "", segments |-> <<>>, exc |-> ""]
Returned(obj) == [kind |-> "object", cls |-> obj.cls, segments |-> obj.segments, exc |-> ""]
Coroutine(segs) ==
    [kind |-> "coroutine", cls |-> "AsyncPixels.from_segments", segments |-> segs, exc |-> ""]
Raised(exc) == [kind |-> "error", cls |-> "", segments |-> <<>>, exc |-> exc]
CancelledResult == [kind |-> "cancelled", cls |-> "", segments |-> <<>>, exc |-> "CancelledError"]

StartPc(op) ==
    CASE op = "from_image_path" -> "open"
      [] op = "from_image" -> "resize"
      [] op = "from_ascii" -> "from_ascii"
      [] OTHER -> "from_segments"

InitTasks(inp) ==
    /\ input = inp
    /\ pc = [t \in DOMAIN inp |-> StartPc(inp[t].op)]
    /\ tstate = [t \in DOMAIN inp |->
                   IF inp[t].facade = "Pixels" THEN "running" ELSE "ready"]
    /\ have = [t \in DOMAIN inp |-> FALSE]
    /\ image = [t \in DOMAIN inp |->
                  IF inp[t].op = "from_image" THEN inp[t].image ELSE BlankImage]
    /\ y = [t \in DOMAIN inp |-> 0]
    /\ x = [t \in DOMAIN inp |-> 0]
    /\ pixel = [t \in DOMAIN inp |-> <<0, 0, 0, 0>>]
    /\ this_row = [t \in DOMAIN inp |-> <<>>]
    /\ segments = [t \in DOMAIN inp |->
                     IF inp[t].op = "from_segments" THEN inp[t].segs ELSE <<>>]
    /\ pixels = [t \in DOMAIN inp |-> NoObject]
    /\ result = [t \in DOMAIN inp |-> Pending]

\* The same call through both facades: the Pixels call is on the thread,
\* the AsyncPixels call is a task of the loop.
Init ==
    \E c \in Calls("Pixels") :
        InitTasks(<<c, [c EXCEPT !.facade = "AsyncPixels"]>>)

(***************************************************************************)
(* The event loop and the executor.                                        *)
(***************************************************************************)
\* The places where AsyncPixels awaits functions.run_in_executor.
AwaitsExecutor(t) ==
    /\ IsAsync(t)
    /\ CASE pc[t] = "open" -> TRUE
         [] pc[t] = "resize" -> IsNotNone(input[t].resize)
         [] pc[t] = "convert" -> image[t].mode # "RGBA"
         [] pc[t] = "getpixel" -> TRUE
         [] pc[t] = "parse_style" -> pixel[t][4] > 0
         [] OTHER -> FALSE

CanStep(t, p) ==
    /\ pc[t] = p
    /\ tstate[t] = "running"
    /\ AwaitsExecutor(t) => have[t]

Goto(t, p) ==
    /\ pc' = [pc EXCEPT ![t] = p]
    /\ have' = [have EXCEPT ![t] = FALSE]
    /\ UNCHANGED <<tstate, result, pixels>>

\* A changed Raise: the exception is caught and an object is built from the
\* segments gathered so far.
RaiseReturnsPartial(t, exc) ==
    /\ pc' = [pc EXCEPT ![t] = "done"]
    /\ tstate' = [tstate EXCEPT ![t] = "done"]
    /\ have' = [have EXCEPT ![t] = FALSE]
    /\ pixels' = [pixels EXCEPT ![t] = [cls |-> input[t].facade, segments |-> segments[t]]]
    /\ result' = [result EXCEPT
                    ![t] = [kind |-> "object", cls |-> input[t].facade,
                            segments |-> segments[t], exc |-> ""]]

\* An exception leaves every frame of the call (no frame catches it) and
\* reaches the caller; no object is built.
Raise(t, exc) ==
    /\ pc' = [pc EXCEPT ![t] = "done"]
    /\ tstate' = [tstate EXCEPT ![t] = "done"]
    /\ have' = [have EXCEPT ![t] = FALSE]
    /\ result' = [result EXCEPT ![t] = Raised(exc)]
    /\ UNCHANGED pixels

locals == <<image, y, x, pixel, this_row, segments>>

Schedule(t) ==
    /\ \A u \in Tasks : tstate[u] # "running"
    /\ tstate[t] = "ready"
    /\ tstate' = [tstate EXCEPT ![t] = "running"]
    /\ UNCHANGED <<input, pc, have, result, pixels, locals>>

\* await loop.run_in_executor(...): the task gives the thread back.
RunInExecutor(t) ==
    /\ tstate[t] = "running"
    /\ AwaitsExecutor(t)
    /\ ~have[t]
    /\ tstate' = [tstate EXCEPT ![t] = "waiting"]
    /\ UNCHANGED <<input, pc, have, result, pixels, locals>>

\* The worker ends; the loop may run the task again.
WorkerDone(t) ==
    /\ tstate[t] = "waiting"
    /\ tstate' = [tstate EXCEPT ![t] = "ready"]
    /\ have' = [have EXCEPT ![t] = TRUE]
    /\ UNCHANGED <<input, pc, result, pixels, locals>>

\* The caller cancels the task while it awaits a worker: CancelledError is
\* raised at the await and the result of the worker is dropped.
Cancel(t) ==
    /\ IsAsync(t)
    /\ tstate[t] = "waiting" \/ (tstate[t] = "ready" /\ have[t])
    /\ pc' = [pc EXCEPT ![t] = "done"]
    /\ tstate' = [tstate EXCEPT ![t] = "done"]
    /\ have' = [have EXCEPT ![t] = FALSE]
    /\ result' = [result EXCEPT ![t] = CancelledResult]
    /\ UNCHANGED <<input, pixels, locals>>

(***************************************************************************)
(* from_image_path, from_image and _segments_from_image of both facades.   *)
(* A collaborator that reads the file (open, and the first use of the      *)
(* pixels, which PIL loads late) may raise OSError.                        *)
(***************************************************************************)
\* PILImageModule.open(Path(path))
PILOpen(t) ==
    /\ CanStep(t, "open")
    /\ \/ Raise(t, "OSError") /\ UNCHANGED image
       \/ Goto(t, "resize") /\ image' = [image EXCEPT ![t] = input[t].image]
    /\ UNCHANGED <<input, y, x, pixel, this_row, segments>>

ResizeRequested(t) ==
    IF IsAsync(t) THEN IsNotNone(input[t].resize) ELSE Truthy(input[t].resize)

\* image = image.resize(resize, resample=Resampling.NEAREST)
Resize(t) ==
    /\ CanStep(t, "resize")
    /\ IF ~ResizeRequested(t)
       THEN Goto(t, "convert") /\ UNCHANGED image
       ELSE IF ~ResizeSizeValid(input[t].resize.size)
       THEN Raise(t, "ValueError") /\ UNCHANGED image
       ELSE \/ Raise(t, "OSError") /\ UNCHANGED image
            \/ /\ Goto(t, "convert")
               /\ image' = [image EXCEPT
                              ![t] = ResizeNearest(image[t], input[t].resize.size)]
    /\ UNCHANGED <<input, y, x, pixel, this_row, segments>>

\* Pixels converts every image; AsyncPixels only one whose mode is not RGBA.
ConvertRequested(t) == IF IsAsync(t) THEN image[t].mode # "RGBA" ELSE TRUE

\* rgba_image = image.convert("RGBA"); segments = []; the row loop starts.
Convert(t) ==
    /\ CanStep(t, "convert")
    /\ \/ ConvertRequested(t) /\ Raise(t, "OSError") /\ UNCHANGED <<image, y, segments>>
       \/ /\ Goto(t, "row_loop")
          /\ image' = [image EXCEPT
                         ![t] = IF ConvertRequested(t) THEN ConvertRGBA(image[t])
                                ELSE image[t]]
          /\ y' = [y EXCEPT ![t] = 0]
          /\ segments' = [segments EXCEPT ![Frame(t)] = <<>>]
    /\ UNCHANGED <<input, x, pixel, this_row>>

\* for y in range(height) / async for y in arange(height): this_row = []
RowLoop(t) ==
    /\ CanStep(t, "row_loop")
    /\ IF y[t] < image[t].height
       THEN /\ Goto(t, "col_loop")
            /\ this_row' = [this_row EXCEPT ![Frame(t)] = <<>>]
            /\ x' = [x EXCEPT ![t] = 0]
       ELSE Goto(t, "from_segments") /\ UNCHANGED <<this_row, x>>
    /\ UNCHANGED <<input, image, y, pixel, segments>>

\* for x in range(width) / async for x in arange(width)
ColLoop(t) ==
    /\ CanStep(t, "col_loop")
    /\ IF x[t] < image[t].width THEN Goto(t, "getpixel") ELSE Goto(t, "row_end")
    /\ UNCHANGED <<input, locals>>

\* r, g, b, a = get_pixel((x, y))
GetPixel(t) ==
    /\ CanStep(t, "getpixel")
    /\ \/ Raise(t, "OSError") /\ UNCHANGED pixel
       \/ /\ Goto(t, "parse_style")
          /\ pixel' = [pixel EXCEPT ![t] = GetPixelAt(image[t], x[t], y[t])]
    /\ UNCHANGED <<input, image, y, x, this_row, segments>>

\* this_row.append(item)
RowAppend(row, item) == Append(row, item)

\* style = parse_style(f"on rgb({r},{g},{b})") if a > 0 else null_style
\* row_append(Segment("  ", style))
ParseStyle(t) ==
    /\ CanStep(t, "parse_style")
    /\ IF PixelStyle(pixel[t]) = StyleSyntaxError
       THEN Raise(t, "StyleSyntaxError") /\ UNCHANGED <<this_row, x>>
       ELSE /\ this_row' = [this_row EXCEPT
                              ![Frame(t)] = RowAppend(@, Segment("  ", PixelStyle(pixel[t])))]
            /\ IF IsAsync(t)
               THEN Goto(t, "col_sleep") /\ UNCHANGED x
               ELSE Goto(t, "col_loop") /\ x' = [x EXCEPT ![t] = x[t] + 1]
    /\ UNCHANGED <<input, image, y, pixel, segments>>

\* all(t[1] == "" for t in this_row[:-1])
RowIsBlank(row) == \A i \in 1..(Len(row) - 1) : PyEq(row[i].style, EmptyStr)

\* A changed AppendRow: the row is put before the rows gathered so far.
PrependRow(segs, row) == row \o segs

\* segments += this_row
AppendRow(segs, row) == segs \o row

\* row_append(Segment("\n", null_style)), then the test that drops a row.
\* Pixels gives all() a generator.  AsyncPixels gives all() an asynchronous
\* generator, which is not iterable: all() raises TypeError.
RowEnd(t) ==
    /\ CanStep(t, "row_end")
    /\ this_row' = [this_row EXCEPT
                      ![Frame(t)] = RowAppend(@, Segment("\n", NullStyle))]
    /\ IF IsAsync(t)
       THEN Raise(t, "TypeError") /\ UNCHANGED <<segments, y>>
       ELSE /\ segments' = [segments EXCEPT
                              ![Frame(t)] = IF ~RowIsBlank(this_row'[Frame(t)])
                                            THEN AppendRow(@, this_row'[Frame(t)])
                                            ELSE @]
            /\ y' = [y EXCEPT ![t] = y[t] + 1]
            /\ Goto(t, "row_loop")
    /\ UNCHANGED <<input, image, x, pixel>>

\* functions.arange after its yield: asyncio.sleep(0) makes a coroutine that
\* nothing awaits, so the task keeps the thread and takes the next index.
ArangeSleep(t) ==
    /\ pc[t] \in {"col_sleep", "row_sleep"}
    /\ tstate[t] = "running"
    /\ IF pc[t] = "col_sleep"
       THEN Goto(t, "col_loop") /\ x' = [x EXCEPT ![t] = x[t] + 1] /\ UNCHANGED y
       ELSE Goto(t, "row_loop") /\ y' = [y EXCEPT ![t] = y[t] + 1] /\ UNCHANGED x
    /\ UNCHANGED <<input, image, pixel, this_row, segments>>

(***************************************************************************)
(* from_segments, as the factories call it.  AsyncPixels.from_segments is  *)
(* a coroutine function: from_image_path and from_ascii await it;          *)
(* from_image returns the coroutine it makes without awaiting it.          *)
(***************************************************************************)
AwaitsFromSegments(t) == input[t].op # "from_image"

FromSegments(t) ==
    /\ CanStep(t, "from_segments")
    /\ pc' = [pc EXCEPT ![t] = "done"]
    /\ tstate' = [tstate EXCEPT ![t] = "done"]
    /\ IF IsAsync(t) /\ ~AwaitsFromSegments(t)
       THEN /\ result' = [result EXCEPT ![t] = Coroutine(segments[Frame(t)])]
            /\ UNCHANGED pixels
       ELSE /\ pixels' = [pixels EXCEPT
                            ![t] = NewObject(input[t].facade, segments[Frame(t)])]
            /\ result' = [result EXCEPT ![t] = Returned(pixels'[t])]
    /\ UNCHANGED <<input, have, locals>>

(***************************************************************************)
(* from_ascii of both facades.                                             *)
(***************************************************************************)
\* if not grid: return from_segments([]); segments = []
AsciiStart(t) ==
    /\ CanStep(t, "from_ascii")
    /\ segments' = [segments EXCEPT ![Frame(t)] = <<>>]
    /\ x' = [x EXCEPT ![t] = 0]
    /\ IF Len(input[t].grid) = 0 THEN Goto(t, "from_segments") ELSE Goto(t, "ascii_loop")
    /\ UNCHANGED <<input, image, y, pixel, this_row>>

\* segment = mapping.get(character, Segment(character))
AsciiSegment(mapping, character) ==
    MappingGet(NormMapping(mapping), character, Segment(character, NoneValue))

\* for character in grid / async for character in aiter(grid):
\*     segments.append(segment)
AsciiChar(t) ==
    /\ CanStep(t, "ascii_loop")
    /\ IF x[t] < Len(input[t].grid)
       THEN /\ segments' = [segments EXCEPT
                              ![Frame(t)] = Append(@, AsciiSegment(input[t].mapping,
                                                                   input[t].grid[x[t] + 1]))]
            /\ IF IsAsync(t)
               THEN Goto(t, "aiter_sleep") /\ UNCHANGED x
               ELSE Goto(t, "ascii_loop") /\ x' = [x EXCEPT ![t] = x[t] + 1]
       ELSE Goto(t, "from_segments") /\ UNCHANGED <<segments, x>>
    /\ UNCHANGED <<input, image, y, pixel, this_row>>

\* functions.aiter after its yield: asyncio.sleep(0) is not awaited.
AiterSleep(t) ==
    /\ pc[t] = "aiter_sleep"
    /\ tstate[t] = "running"
    /\ Goto(t, "ascii_loop")
    /\ x' = [x EXCEPT ![t] = x[t] + 1]
    /\ UNCHANGED <<input, image, y, pixel, this_row, segments>>

(***************************************************************************)
(* The specifications.                                                     *)
(***************************************************************************)
DoSchedule == \E t \in Tasks : Schedule(t)
DoRunInExecutor == \E t \in Tasks : RunInExecutor(t)
DoWorkerDone == \E t \in Tasks : WorkerDone(t)
DoCancel == \E t \in Tasks : Cancel(t)
DoPILOpen == \E t \in Tasks : PILOpen(t)
DoResize == \E t \in Tasks : Resize(t)
DoConvert == \E t \in Tasks : Convert(t)
DoRowLoop == \E t \in Tasks : RowLoop(t)
DoColLoop == \E t \in Tasks : ColLoop(t)
DoGetPixel == \E t \in Tasks : GetPixel(t)
DoParseStyle == \E t \in Tasks : ParseStyle(t)
DoRowEnd == \E t \in Tasks : RowEnd(t)
DoArangeSleep == \E t \in Tasks : ArangeSleep(t)
DoFromSegments == \E t \in Tasks : FromSegments(t)
DoAsciiStart == \E t \in Tasks : AsciiStart(t)
DoAsciiChar == \E t \in Tasks : AsciiChar(t)
DoAiterSleep == \E t \in Tasks : AiterSleep(t)

Next ==
    \/ DoSchedule \/ DoRunInExecutor \/ DoWorkerDone \/ DoCancel
    \/ DoPILOpen \/ DoResize \/ DoConvert \/ DoRowLoop \/ DoColLoop
    \/ DoGetPixel \/ DoParseStyle \/ DoRowEnd \/ DoArangeSleep
    \/ DoFromSegments \/ DoAsciiStart \/ DoAsciiChar \/ DoAiterSleep

Spec == Init /\ [][Next]_vars

(***************************************************************************)
(* One call of the Pixels facade on one row of pixels of the wide palette. *)
(***************************************************************************)
InitPixel == \E c \in ImageCalls("Pixels", StripImages) : InitTasks(<<c>>)

NextPixel ==
    \/ DoPILOpen \/ DoResize \/ DoConvert \/ DoRowLoop \/ DoColLoop
    \/ DoGetPixel \/ DoParseStyle \/ DoRowEnd \/ DoFromSegments

SpecPixel == InitPixel /\ [][NextPixel]_vars

(***************************************************************************)
(* Two calls of the AsyncPixels facade as tasks of one event loop.         *)
(***************************************************************************)
ConcImages ==
    { i \in ImagesOf("RGBA", RGBAPalette, MaxConcW, 1) : i.width > 0 \/ i.height = 0 }
ConcGrids == UNION { [1..k -> {"x", "\n"}] : k \in 0..MaxConcGrid }
ConcMappings == { NoMapping, MappingOf([c \in {"x"} |-> Yellow]) }

ConcCalls ==
    { ImageCall("AsyncPixels", "from_image_path", i, NoResize) : i \in ConcImages }
        \cup { AsciiCall("AsyncPixels", g, m) : g \in ConcGrids, m \in ConcMappings }

InitConc == \E c1 \in ConcCalls, c2 \in ConcCalls : InitTasks(<<c1, c2>>)

SpecConc == InitConc /\ [][Next]_vars

(***************************************************************************)
(* What the claims speak of.                                               *)
(***************************************************************************)
IsImageCall(t) == input[t].op \in ImageOps
IsSync(t) == input[t].facade = "Pixels"
Completed(t) == result[t].kind \in {"object", "coroutine"}
\* The task ended, and not by a cancellation or by a file that could not be read.
EndedByItself(t) ==
    /\ tstate[t] = "done"
    /\ result[t].kind # "cancelled"
    /\ result[t].exc # "OSError"

\* The rows of an RGBA image that hold a pixel of alpha > 0 (rows from 1).
VisibleRows(img) ==
    { yy \in 1..img.height : \E xx \in 1..img.width : img.px[yy][xx][4] > 0 }

\* The segment the specification gives a pixel.
ExpectedSegment(rgba) ==
    [text |-> "  ",
     style |-> IF rgba[4] > 0
               THEN [type |-> "Style", bgcolor |-> <<rgba[1], rgba[2], rgba[3]>>]
               ELSE [type |-> "Style", bgcolor |-> <<>>]]

ExpectedNewline == [text |-> "\n", style |-> [type |-> "Style", bgcolor |-> <<>>]]

ExpectedRow(img, yy) ==
    [i \in 1..(img.width + 1) |->
        IF i <= img.width THEN ExpectedSegment(img.px[yy][i]) ELSE ExpectedNewline]

SetMin(S) == CHOOSE m \in S : \A n \in S : m <= n

RECURSIVE ConcatRows(_, _)
ConcatRows(img, S) ==
    IF S = {} THEN <<>>
    ELSE ExpectedRow(img, SetMin(S)) \o ConcatRows(img, S \ {SetMin(S)})

\* The k-th run of width + 1 segments of an output.
Chunk(segs, w, k) == SubSeq(segs, (k - 1) * (w + 1) + 1, k * (w + 1))

(***************************************************************************)
(* C1.  The trimming rule of Pixels._segments_from_image: for an image of  *)
(* width >= 1 the output holds exactly the rows that have a pixel of       *)
(* alpha > 0, in order; a row of transparent pixels gives no segment, so   *)
(* a transparent image gives the empty sequence.                           *)
(***************************************************************************)
C1_TrimmingRule ==
    \A t \in Tasks :
        (IsSync(t) /\ IsImageCall(t) /\ result[t].kind = "object"
                /\ image[t].width >= 1)
            => result[t].segments = ConcatRows(image[t], VisibleRows(image[t]))

(***************************************************************************)
(* C2.  On the same image and resize argument, the conversion of           *)
(* AsyncPixels ends with the segment sequence of the conversion of Pixels, *)
(* and not with an error.                                                  *)
(***************************************************************************)
C2_AsyncEqualsSync ==
    \A s \in Tasks, a \in Tasks :
        (/\ IsSync(s) /\ IsAsync(a) /\ IsImageCall(s)
         /\ input[a] = [input[s] EXCEPT !.facade = "AsyncPixels"]
         /\ result[s].kind = "object"
         /\ EndedByItself(a))
            => Completed(a) /\ result[a].segments = result[s].segments

(***************************************************************************)
(* C3.  The segment of a pixel in Pixels._segments_from_image: its text is *)
(* two blanks; with a > 0 its style is the background style of (r, g, b),  *)
(* whatever a is; with a = 0 it is the null style, whatever (r, g, b) is.  *)
(* It holds of the row under assembly and of every row of the output.      *)
(***************************************************************************)
C3_PixelStyle ==
    \A t \in Tasks :
        IsSync(t) /\ IsImageCall(t) =>
            /\ pc[t] \in {"col_loop", "getpixel", "parse_style", "row_end"} =>
                  /\ Len(this_row[Frame(t)]) = x[t]
                  /\ \A i \in 1..x[t] :
                        this_row[Frame(t)][i] = ExpectedSegment(image[t].px[y[t] + 1][i])
            /\ (result[t].kind = "object" /\ image[t].width >= 1) =>
                  \A k \in 1..(Len(result[t].segments) \div (image[t].width + 1)) :
                      \E yy \in 1..image[t].height :
                          Chunk(result[t].segments, image[t].width, k)
                              = ExpectedRow(image[t], yy)

\* A row of two pixels of one colour and two positive alphas has been
\* converted, to two equal segments.
C3_Witness ==
    \E t \in Tasks :
        /\ IsSync(t) /\ result[t].kind = "object"
        /\ image[t].height = 1 /\ image[t].width = 2
        /\ image[t].px[1][1] = <<255, 7, 128, 255>>
        /\ image[t].px[1][2] = <<255, 7, 128, 1>>
        /\ Len(result[t].segments) = 3
        /\ result[t].segments[1] = result[t].segments[2]

(***************************************************************************)
(* C4.  The layout of the output of Pixels._segments_from_image for an     *)
(* image of width w: the rows kept, from top to bottom, each the segments  *)
(* of its w pixels from left to right and then a newline of null style.    *)
(* The length is a multiple of w + 1, a newline stands at the end of a row *)
(* and nowhere else, every row with a pixel of alpha > 0 is there.         *)
(***************************************************************************)
C4_Layout ==
    \A t \in Tasks :
        (IsSync(t) /\ IsImageCall(t) /\ result[t].kind = "object") =>
            LET segs == result[t].segments
                w == image[t].width
            IN  /\ Len(segs) % (w + 1) = 0
                /\ \A i \in 1..Len(segs) :
                      /\ (segs[i].text = "\n") <=> (i % (w + 1) = 0)
                      /\ (i % (w + 1) = 0) => segs[i] = ExpectedNewline
                /\ \E S \in SUBSET (1..image[t].height) :
                      /\ VisibleRows(image[t]) \subseteq S
                      /\ segs = ConcatRows(image[t], S)
                /\ VisibleRows(image[t]) # {} => Len(segs) > 0

\* An image of two rows of two pixels, the rows different, has been converted.
C4_Witness ==
    \E t \in Tasks :
        /\ IsSync(t) /\ IsImageCall(t) /\ result[t].kind = "object"
        /\ image[t].width = 2 /\ image[t].height = 2
        /\ image[t].px[1] # image[t].px[2]
        /\ Len(result[t].segments) = 6

(***************************************************************************)
(* C5.  from_ascii of both facades: one segment for every character of the *)
(* grid, in order; the segment of the mapping where the character is a key *)
(* of it, else the character with no style; newlines and blanks are        *)
(* characters like the others; the empty grid gives the empty sequence.    *)
(***************************************************************************)
C5_FromAscii ==
    \A t \in Tasks :
        (input[t].op = "from_ascii" /\ tstate[t] = "done") =>
            LET grid == input[t].grid
                keys == IF input[t].mapping.isNone THEN {}
                        ELSE DOMAIN input[t].mapping.map
            IN  /\ result[t].kind = "object"
                /\ result[t].cls = input[t].facade
                /\ pixels[t].segments = result[t].segments
                /\ Len(result[t].segments) = Len(grid)
                /\ \A i \in 1..Len(grid) :
                      result[t].segments[i] =
                          IF grid[i] \in keys THEN input[t].mapping.map[grid[i]]
                          ELSE [text |-> grid[i], style |-> NoneValue]

\* Both facades have converted a grid of a mapped character and a newline
\* that is not mapped.
C5_Witness ==
    \E s \in Tasks, a \in Tasks :
        /\ IsSync(s) /\ IsAsync(a)
        /\ input[s].op = "from_ascii" /\ input[a].op = "from_ascii"
        /\ input[s].grid = <<"x", "\n">>
        /\ ~input[s].mapping.isNone /\ DOMAIN input[s].mapping.map = {"x"}
        /\ result[s].kind = "object" /\ result[a].kind = "object"
        /\ result[a].segments = <<Yellow, [text |-> "\n", style |-> NoneValue]>>

(***************************************************************************)
(* C6.  Where functions.arange and functions.aiter go from one item to the *)
(* next (every row, every column, every character), a task of AsyncPixels  *)
(* gives the thread back to the loop when another task is ready, so that   *)
(* no two items are taken in one turn.                                     *)
(***************************************************************************)
C6_YieldsBetweenIterations ==
    [][\A t \in Tasks :
          (/\ IsAsync(t)
           /\ pc[t] \in {"aiter_sleep", "col_sleep", "row_sleep"}
           /\ pc'[t] # pc[t]
           /\ \E u \in Tasks : u # t /\ tstate[u] = "ready")
              => tstate'[t] # "running"]_vars

(***************************************************************************)
(* C7.  All or nothing, in both facades: a call that ends with an error or *)
(* a cancellation has built no object; an object is built only when the    *)
(* conversion has run to its end, from the whole sequence it gathered.     *)
(***************************************************************************)
RanToEnd(t) ==
    CASE IsImageCall(t) ->
            /\ y[t] = image[t].height
            /\ Len(segments[Frame(t)]) % (image[t].width + 1) = 0
      [] input[t].op = "from_ascii" -> Len(segments[Frame(t)]) = Len(input[t].grid)
      [] OTHER -> segments[Frame(t)] = input[t].segs

C7_AllOrNothing ==
    \A t \in Tasks :
        /\ result[t].kind \in {"error", "cancelled"} => pixels[t] = NoObject
        /\ result[t].kind = "coroutine" => pixels[t] = NoObject /\ RanToEnd(t)
        /\ pixels[t] # NoObject =>
              /\ pc[t] = "done"
              /\ result[t].kind = "object"
              /\ result[t].segments = pixels[t].segments
              /\ pixels[t].segments = segments[Frame(t)]
              /\ RanToEnd(t)

\* The call of Pixels has failed with rows gathered, the call of AsyncPixels
\* has been cancelled while it awaited a worker: neither has built an object.
C7_Witness ==
    \E s \in Tasks, a \in Tasks :
        /\ IsSync(s) /\ result[s].kind = "error" /\ Len(segments[Frame(s)]) > 0
        /\ pixels[s] = NoObject
        /\ IsAsync(a) /\ result[a].kind = "cancelled" /\ pc[a] = "done"
        /\ pixels[a] = NoObject

(***************************************************************************)
(* C8.  For an image of width 0 or of height 0 the conversions of both     *)
(* facades end without an error, with the empty sequence.                  *)
(***************************************************************************)
C8_ZeroSize ==
    \A t \in Tasks :
        (/\ IsImageCall(t)
         /\ input[t].image.width = 0 \/ input[t].image.height = 0
         /\ EndedByItself(t))
            => Completed(t) /\ result[t].segments = <<>>

(***************************************************************************)
(* C9.  Every factory of both facades gives its caller an object of the    *)
(* facade that holds the converted segments; awaiting                      *)
(* AsyncPixels.from_image gives an AsyncPixels, not a coroutine.           *)
(***************************************************************************)
C9_FactoryResult ==
    \A t \in Tasks :
        (EndedByItself(t) /\ result[t].kind # "error") =>
            /\ result[t].kind = "object"
            /\ result[t].cls = input[t].facade
            /\ pixels[t].segments = segments[Frame(t)]

(***************************************************************************)
(* C10.  Conversions of AsyncPixels that run as tasks of one loop do not   *)
(* touch each other: under every interleaving the lists of a conversion    *)
(* hold its own segments only, it ends with the result it has when it runs *)
(* alone, and two conversions of the same input end with the same result.  *)
(***************************************************************************)
\* What a call of from_ascii gathers when it runs alone.
AloneAscii(call) ==
    [i \in 1..Len(call.grid) |->
        IF ~call.mapping.isNone /\ call.grid[i] \in DOMAIN call.mapping.map
        THEN call.mapping.map[call.grid[i]]
        ELSE [text |-> call.grid[i], style |-> NoneValue]]

\* The number of items the task has put in the list it fills.
Taken(t) == IF pc[t] \in {"col_sleep", "aiter_sleep"} THEN x[t] + 1 ELSE x[t]

C10_Independent ==
    \A t \in Tasks :
        /\ (IsImageCall(t)
                /\ pc[t] \in {"col_loop", "getpixel", "parse_style", "col_sleep"}) =>
              this_row[Frame(t)] =
                  [i \in 1..Taken(t) |-> ExpectedSegment(image[t].px[y[t] + 1][i])]
        /\ (input[t].op = "from_ascii" /\ pc[t] \in {"ascii_loop", "aiter_sleep"}) =>
              segments[Frame(t)] = SubSeq(AloneAscii(input[t]), 1, Taken(t))
        /\ (input[t].op = "from_ascii" /\ EndedByItself(t)) =>
              result[t].kind = "object" /\ result[t].segments = AloneAscii(input[t])
        /\ (IsImageCall(t) /\ EndedByItself(t)) =>
              IF input[t].image.height = 0
              THEN Completed(t) /\ result[t].segments = <<>>
              ELSE result[t].kind = "error" /\ result[t].exc = "TypeError"
        /\ \A u \in Tasks :
              (input[u] = input[t] /\ EndedByItself(u) /\ EndedByItself(t))
                  => result[u] = result[t]

\* Two conversions of different images are both in the middle of a row: one
\* awaits a worker, the other has put a segment in its row.
C10_Witness ==
    \E t \in Tasks, u \in Tasks :
        /\ t # u /\ IsImageCall(t) /\ IsImageCall(u)
        /\ input[t].image # input[u].image
        /\ pc[t] = "parse_style" /\ tstate[t] = "waiting"
        /\ pc[u] = "col_sleep" /\ Len(this_row[Frame(u)]) = 1

====
